---- MODULE Spec2Model ----
(***************************************************************************)
(* A model of the DevBox VM controller (src/windows_vm.py, class           *)
(* WindowsVM), the storage scan of its GUI caller (src/main.py) and the    *)
(* host it drives: the storage root, one directory and one disk image per  *)
(* VM name, the hypervisor's record of each VM and its power state.        *)
(*                                                                         *)
(* Every controller operation is one action.  The external commands an     *)
(* operation runs are black boxes: each returns "ok", exits non-zero       *)
(* ("nonzero") or cannot be launched because its executable is absent      *)
(* ("absent"); the outcome of the k-th command of an operation is the      *)
(* input outs[k].  A command that returns "ok" has had the effect its      *)
(* command line asks for.  Plain file operations (makedirs, remove) are    *)
(* taken to succeed whenever the file system state allows them.            *)
(* Besides the controller the guest of a running VM acts on the host (its   *)
(* disk image grows) and so does whatever else leaves files in a VM's      *)
(* directory.                                                              *)
(*                                                                         *)
(* Three specifications share the controller and the host.  Spec is a      *)
(* caller that keeps one controller and calls its operations one after     *)
(* the other.  CliSpec is the command line (src/vm_cli.py): every          *)
(* invocation constructs its own controller and calls one operation.       *)
(* GuiSpec is the window (src/main.py): every click constructs a           *)
(* controller and hands it to a worker thread; a worker is in flight from  *)
(* the click that starts it until its finished signal is handled, and its  *)
(* operation takes effect on the host in one step at the end of that       *)
(* interval.                                                               *)
(***************************************************************************)
EXTENDS Naturals, Sequences, FiniteSets

VARIABLES host, ctl, world, last, gui

vars == <<host, ctl, world, last, gui>>

----------------------------------------------------------------------------
(* Bounds *)

\* commands one operation can issue (the longest sequence is the seven
\* VBoxManage calls of _create_virtualbox)
MaxCmds == 7

\* guest processes / power-ons tracked per VM
MaxProcs == 2

\* worker threads of the window in flight at once
MaxWorkers == 2

Names == {"vm1"}

Systems == {"windows", "darwin", "linux"}

Outcomes == {"ok", "nonzero", "absent"}

\* iso_path: None or "", a path to an existing file, a path to no file
IsoPaths == {"none", "iso_ok", "iso_missing"}

\* `os.path.getsize(self.disk_path) < 1000000000`
Threshold == 1000000000

\* sizes of a disk image in bytes: 0 stands for an image that has just been
\* created, the others lie around the threshold
DiskSizes == {0, Threshold - 1, Threshold, Threshold + 1}

\* Outcome vectors: only the first command that does not return "ok" can be
\* observed before the operation either aborts or ends, so at most one entry
\* differs from "ok"; an operation that issues at most n commands reads only
\* the first n entries.
AllOk == [k \in 1..MaxCmds |-> "ok"]

OutcomeSeqs(n) ==
    {AllOk} \cup {[AllOk EXCEPT ![k] = o] :
                     k \in 1..n, o \in Outcomes \ {"ok"}}

----------------------------------------------------------------------------
(* Command sequences *)

HypervCreateCmds ==
    << "New-VM", "New-VHD", "Add-VMHardDiskDrive", "Add-VMDvdDrive",
       "Set-VMFirmware-SecureBootOff", "Set-VMFirmware-FirstBootDevice" >>

\* the Desktop sequence with the two storageattach calls folded into the
\* storagectl calls and a separate attach of the ISO: six commands
VBoxSixCmds ==
    << "createvm", "modifyvm", "createmedium", "storagectl-sata",
       "storagectl-ide", "storageattach-dvd" >>

VBoxCreateCmds ==
    << "createvm", "modifyvm", "createmedium", "storagectl-sata",
       "storageattach-hdd", "storagectl-ide", "storageattach-dvd" >>

QemuCreateCmds == << "qemu-img-create" >>

CreateCmds(tool) ==
    IF tool = "qemu" THEN QemuCreateCmds
    ELSE IF tool = "hyperv" THEN HypervCreateCmds
    ELSE VBoxCreateCmds

StartCmd(tool) ==
    IF tool = "qemu" THEN "qemu-system-x86_64"
    ELSE IF tool = "hyperv" THEN "Start-VM"
    ELSE "startvm"

StopCmd(tool) ==
    IF tool = "qemu" THEN "pkill"
    ELSE IF tool = "hyperv" THEN "Stop-VM"
    ELSE "controlvm-acpipowerbutton"

RemoveCmd(tool) ==
    IF tool = "hyperv" THEN "Remove-VM" ELSE "unregistervm-delete"

\* commands that leave something in the hypervisor's record of the VM
RecordCmds ==
    {HypervCreateCmds[i] : i \in 1..Len(HypervCreateCmds)}
        \cup {VBoxCreateCmds[i] : i \in 1..Len(VBoxCreateCmds)}

DiskCmds == {"qemu-img-create", "New-VHD", "createmedium"}

StopCmds == {"pkill", "Stop-VM", "controlvm-acpipowerbutton"}

\* the backend delete steps: remove-VM command, unregister command, removal
\* of the disk file
DeleteSteps == {"Remove-VM", "unregistervm-delete", "os.remove"}

\* everything that undoes a create step
UndoSteps == DeleteSteps \cup {"os.rmdir"}

----------------------------------------------------------------------------
(* The host *)

Entry(cmd, out) == [cmd |-> cmd, out |-> out]

Min(a, b) == IF a < b THEN a ELSE b

\* The effect of one command of VM n that returned out.
CmdEffect(w, n, e) ==
    IF e.out # "ok" THEN w
    ELSE IF e.cmd \in DiskCmds THEN
        [w EXCEPT !.disks[n] = TRUE, !.dsize[n] = 0,
                  !.applied[n] =
                      IF e.cmd \in RecordCmds THEN @ \cup {e.cmd} ELSE @]
    ELSE IF e.cmd \in RecordCmds THEN
        [w EXCEPT !.applied[n] = @ \cup {e.cmd}]
    ELSE IF e.cmd = "qemu-system-x86_64" THEN
        [w EXCEPT !.power[n] = Min(@ + 1, MaxProcs)]
    ELSE IF e.cmd \in {"Start-VM", "startvm"} THEN
        [w EXCEPT !.power[n] = IF @ = 0 THEN 1 ELSE @]
    ELSE IF e.cmd \in StopCmds THEN
        [w EXCEPT !.power[n] = 0]
    ELSE IF e.cmd = "Remove-VM" THEN
        [w EXCEPT !.applied[n] = {}, !.power[n] = 0]
    ELSE IF e.cmd = "unregistervm-delete" THEN
        [w EXCEPT !.applied[n] = {}, !.power[n] = 0,
                  !.disks[n] = IF "createmedium" \in w.applied[n]
                               THEN FALSE ELSE @,
                  !.dsize[n] = IF "createmedium" \in w.applied[n]
                               THEN 0 ELSE @]
    ELSE IF e.cmd = "makedirs" THEN
        [w EXCEPT !.root = TRUE, !.dirs[n] = TRUE]
    ELSE IF e.cmd = "os.remove" THEN
        [w EXCEPT !.disks[n] = FALSE, !.dsize[n] = 0]
    ELSE IF e.cmd = "os.rmdir" THEN
        [w EXCEPT !.dirs[n] = FALSE]
    ELSE w

RECURSIVE ApplyLog(_, _, _)
ApplyLog(w, n, log) ==
    IF log = << >> THEN w
    ELSE ApplyLog(CmdEffect(w, n, Head(log)), n, Tail(log))

\* subprocess.run(..., check=True) over cmds in order, the k-th command
\* getting outcome outs[base + k]: the entries issued, up to and including
\* the first that does not return "ok".
FirstBad(cmds, outs, base) ==
    LET bad == {k \in 1..Len(cmds) : outs[base + k] # "ok"}
    IN  IF bad = {} THEN 0
        ELSE CHOOSE k \in bad : \A j \in bad : k <= j

\* the loop going on after a failing command
RunUnchecked(cmds, outs, base) ==
    [k \in 1..Len(cmds) |-> Entry(cmds[k], outs[base + k])]

RunChecked(cmds, outs, base) ==
    LET fb == FirstBad(cmds, outs, base)
        n  == IF fb = 0 THEN Len(cmds) ELSE fb
    IN  [k \in 1..n |-> Entry(cmds[k], outs[base + k])]

\* check=True dropped: a non-zero exit raises nothing
ExcOfUnchecked(out) ==
    IF out = "absent" THEN "FileNotFoundError" ELSE "none"

\* the exception a command outcome raises under check=True
ExcOf(out) ==
    IF out = "nonzero" THEN "CalledProcessError"
    ELSE IF out = "absent" THEN "FileNotFoundError"
    ELSE "none"

LastExc(log) == IF log = << >> THEN "none" ELSE ExcOf(log[Len(log)].out)

----------------------------------------------------------------------------
(* WindowsVM *)

NoCtl ==
    [vm_name |-> "none", iso_path |-> "none", vm_running |-> FALSE,
     virtualization_tool |-> "none"]

Outcome(c, w, log, result, exc) ==
    [ctl |-> c, world |-> w, log |-> log, result |-> result, exc |-> exc]

\* probe: the outcome of `powershell Get-Command Get-VM`; kvm: /dev/kvm exists
DetectTool(sys, probe, kvm) ==
    IF sys = "windows" THEN
        IF probe = "ok" THEN "hyperv"
        ELSE IF probe = "nonzero" THEN "virtualbox"
        ELSE "raise"
    ELSE IF sys = "darwin" THEN "virtualbox"
    ELSE IF kvm THEN "qemu" ELSE "virtualbox"

\* a controller that takes the VM to be running when it is constructed
NewVMAssumeRunning(name, iso, tool) ==
    [vm_name |-> name, iso_path |-> iso, vm_running |-> TRUE,
     virtualization_tool |-> tool]

NewVM(name, iso, tool) ==
    [vm_name |-> name, iso_path |-> iso, vm_running |-> FALSE,
     virtualization_tool |-> tool]

\* os.makedirs left out
MakeDirsNoop(w, n) == w

MakeDirs(w, n) == CmdEffect(w, n, Entry("makedirs", "ok"))

\* the ISO check left out
NoIsoNever(c) == FALSE

\* `not self.iso_path`
NoIso(c) == c.iso_path = "none"

\* create() undoing its steps when one of them fails
CreateVMRollback(c, w, outs) ==
    IF NoIso(c) THEN Outcome(c, w, << >>, "raise", "ValueError")
    ELSE
        LET run == RunChecked(CreateCmds(c.virtualization_tool), outs, 0)
            w2  == ApplyLog(MakeDirs(w, c.vm_name), c.vm_name, run)
            log == << Entry("makedirs", "ok") >> \o run
            exc == LastExc(run)
        IN  IF exc # "none" THEN Outcome(c, w, log, "raise", exc)
            ELSE Outcome(c, w2, log, "true", "none")

\* create() marking the VM as running once it is created
CreateVMMarksRunning(c, w, outs) ==
    IF NoIso(c) THEN Outcome(c, w, << >>, "raise", "ValueError")
    ELSE
        LET run == RunChecked(CreateCmds(c.virtualization_tool), outs, 0)
            w2  == ApplyLog(MakeDirs(w, c.vm_name), c.vm_name, run)
            log == << Entry("makedirs", "ok") >> \o run
            exc == LastExc(run)
        IN  IF exc # "none" THEN Outcome(c, w2, log, "raise", exc)
            ELSE Outcome([c EXCEPT !.vm_running = TRUE], w2, log, "true",
                         "none")

CreateVM(c, w, outs) ==
    IF NoIso(c) THEN Outcome(c, w, << >>, "raise", "ValueError")
    ELSE
        LET w1  == MakeDirs(w, c.vm_name)
            run == RunChecked(CreateCmds(c.virtualization_tool), outs, 0)
            w2  == ApplyLog(w1, c.vm_name, run)
            log == << Entry("makedirs", "ok") >> \o run
            exc == LastExc(run)
        IN  IF exc # "none" THEN Outcome(c, w2, log, "raise", exc)
            ELSE Outcome(c, w2, log, "true", "none")

\* the assignment to self.vm_running left out
SetRunningNoop(c, b) == c

SetRunning(c, b) == [c EXCEPT !.vm_running = b]

\* start() without the poll after the spawn
StartVMNoPoll(c, w, outs, alive) ==
    LET cmd == StartCmd(c.virtualization_tool)
        out == IF c.virtualization_tool = "qemu" /\ outs[1] # "absent"
               THEN (IF alive THEN "ok" ELSE "exited")
               ELSE outs[1]
        run == << Entry(cmd, out) >>
        w1  == ApplyLog(w, c.vm_name, run)
    IN  IF out \in {"nonzero", "absent"}
        THEN Outcome(c, w1, run, "raise", ExcOf(out))
        ELSE Outcome(SetRunning(c, TRUE), w1, run, "true", "none")

\* the boot order forced also for an image of exactly the threshold size
ForceCdBootUpTo(c, w) ==
    /\ c.iso_path # "none"
    /\ w.disks[c.vm_name]
    /\ w.dsize[c.vm_name] <= Threshold

\* `-boot d`: an ISO is given, the disk image exists and is smaller than
\* the threshold
ForceCdBoot(c, w) ==
    /\ c.iso_path # "none"
    /\ w.disks[c.vm_name]
    /\ w.dsize[c.vm_name] < Threshold

\* the media arguments of the command line start() builds on the KVM backend
QemuMediaArgs(c, w) ==
    IF c.virtualization_tool # "qemu" THEN "none"
    ELSE IF c.iso_path = "none" THEN "disk"
    ELSE IF ForceCdBoot(c, w) THEN "cdrom-boot-d"
    ELSE "cdrom"

\* what a start() read of the disk image and put on the command line
NoArgs == [media |-> "none", disk |-> FALSE, size |-> 0]

QemuArgs(c, w) ==
    IF c.virtualization_tool # "qemu" THEN NoArgs
    ELSE [media |-> QemuMediaArgs(c, w),
          disk  |-> w.disks[c.vm_name],
          size  |-> w.dsize[c.vm_name]]

\* start() returning False at once when the run-state is Running, as stop()
\* does when it is Stopped
StartVMGated(c, w, outs, alive) ==
    IF c.vm_running THEN Outcome(c, w, << >>, "false", "none")
    ELSE
        LET cmd == StartCmd(c.virtualization_tool)
            out == IF c.virtualization_tool # "qemu" \/ outs[1] = "absent"
                   THEN outs[1]
                   ELSE IF alive THEN "ok" ELSE "exited"
            run == << Entry(cmd, out) >>
            w1  == ApplyLog(w, c.vm_name, run)
        IN  IF out \in {"nonzero", "absent"}
            THEN Outcome(c, w1, run, "raise", ExcOf(out))
            ELSE IF out = "exited" THEN Outcome(c, w, run, "false", "none")
            ELSE Outcome(SetRunning(c, TRUE), w1, run, "true", "none")

StartVM(c, w, outs, alive) ==
    LET cmd == StartCmd(c.virtualization_tool)
    IN  IF c.virtualization_tool = "qemu" THEN
            IF outs[1] = "absent" THEN
                Outcome(c, w, << Entry(cmd, "absent") >>, "raise",
                        "FileNotFoundError")
            ELSE IF alive THEN
                Outcome(SetRunning(c, TRUE),
                        CmdEffect(w, c.vm_name, Entry(cmd, "ok")),
                        << Entry(cmd, "ok") >>, "true", "none")
            ELSE
                Outcome(c, w, << Entry(cmd, "exited") >>, "false", "none")
        ELSE
            LET run == RunChecked(<< cmd >>, outs, 0)
                w1  == ApplyLog(w, c.vm_name, run)
                exc == LastExc(run)
            IN  IF exc # "none" THEN Outcome(c, w1, run, "raise", exc)
                ELSE Outcome(SetRunning(c, TRUE), w1, run, "true", "none")

\* stop() running pkill with check=True
StopVMChecked(c, w, outs) ==
    IF ~c.vm_running THEN Outcome(c, w, << >>, "false", "none")
    ELSE
        LET run == << Entry(StopCmd(c.virtualization_tool), outs[1]) >>
            w1  == ApplyLog(w, c.vm_name, run)
            exc == LastExc(run)
        IN  IF exc # "none" THEN Outcome(c, w1, run, "raise", exc)
            ELSE Outcome(SetRunning(c, FALSE), w1, run, "true", "none")

\* stop() clearing vm_running before it runs the command
StopVMFlagFirst(c, w, outs) ==
    IF ~c.vm_running THEN Outcome(c, w, << >>, "false", "none")
    ELSE
        LET run == << Entry(StopCmd(c.virtualization_tool), outs[1]) >>
            w1  == ApplyLog(w, c.vm_name, run)
            exc == IF c.virtualization_tool = "qemu" /\ outs[1] = "nonzero"
                   THEN "none" ELSE LastExc(run)
        IN  IF exc # "none"
            THEN Outcome(SetRunning(c, FALSE), w1, run, "raise", exc)
            ELSE Outcome(SetRunning(c, FALSE), w1, run, "true", "none")

\* stop() without its vm_running gate
StopVMUngated(c, w, outs) ==
    LET run == << Entry(StopCmd(c.virtualization_tool), outs[1]) >>
        w1  == ApplyLog(w, c.vm_name, run)
        exc == IF c.virtualization_tool = "qemu" /\ outs[1] = "nonzero"
               THEN "none" ELSE LastExc(run)
    IN  IF exc # "none" THEN Outcome(c, w1, run, "raise", exc)
        ELSE Outcome(SetRunning(c, FALSE), w1, run, "true", "none")

StopVM(c, w, outs) ==
    IF ~c.vm_running THEN Outcome(c, w, << >>, "false", "none")
    ELSE
        LET run == << Entry(StopCmd(c.virtualization_tool), outs[1]) >>
            w1  == ApplyLog(w, c.vm_name, run)
            exc == IF c.virtualization_tool = "qemu" /\ outs[1] = "nonzero"
                   THEN "none" ELSE LastExc(run)
        IN  IF exc # "none" THEN Outcome(c, w1, run, "raise", exc)
            ELSE Outcome(SetRunning(c, FALSE), w1, run, "true", "none")

\* os.remove(disk_path) without the os.path.exists guard
RemoveDiskUnguarded(w, n) ==
    IF w.disks[n] THEN << Entry("os.remove", "ok") >>
    ELSE << Entry("os.remove", "absent") >>

\* os.remove(disk_path) guarded by os.path.exists(disk_path)
RemoveDisk(w, n) ==
    IF w.disks[n] THEN << Entry("os.remove", "ok") >> ELSE << >>

\* the directory removed with whatever is in it
RmDirForced(w, n) ==
    IF w.dirs[n] THEN << Entry("os.rmdir", "ok") >>
    ELSE << Entry("os.rmdir", "oserror") >>

\* the directory of VM n holds nothing
DirEmpty(w, n) == ~w.disks[n] /\ ~w.extra[n] /\ w.applied[n] = {}

\* os.rmdir(vm_path) inside try/except: fails on a missing or non-empty
\* directory
RmDir(w, n) ==
    IF w.dirs[n] /\ DirEmpty(w, n)
    THEN << Entry("os.rmdir", "ok") >>
    ELSE << Entry("os.rmdir", "oserror") >>

DeleteBackend(c, w, outs, base) ==
    IF c.virtualization_tool = "qemu" THEN RemoveDisk(w, c.vm_name)
    ELSE
        LET run == RunChecked(<< RemoveCmd(c.virtualization_tool) >>, outs, base)
            w1  == ApplyLog(w, c.vm_name, run)
        IN  IF LastExc(run) # "none" \/ c.virtualization_tool = "virtualbox"
            THEN run
            ELSE run \o RemoveDisk(w1, c.vm_name)

\* delete() going straight to the backend delete
StopFirstSkipped(c, w, outs) == Outcome(c, w, << >>, "skipped", "none")

\* `if self.vm_running: self.stop()`
StopFirst(c, w, outs) ==
    IF c.vm_running THEN StopVM(c, w, outs)
    ELSE Outcome(c, w, << >>, "skipped", "none")

\* delete() going on to the backend delete when its stop has failed
DeleteVMStopBestEffort(c, w, outs) ==
    LET s   == StopFirst(c, w, outs)
        del == DeleteBackend(s.ctl, s.world, outs, Len(s.log))
        w1  == ApplyLog(s.world, c.vm_name, del)
        exc == LastExc(del)
    IN  IF exc # "none"
        THEN Outcome(s.ctl, w1, s.log \o del, "raise", exc)
        ELSE
            LET rm == RmDir(w1, c.vm_name)
            IN  Outcome(s.ctl, ApplyLog(w1, c.vm_name, rm),
                        s.log \o del \o rm, "true", "none")

DeleteVM(c, w, outs) ==
    LET s == StopFirst(c, w, outs)
    IN  IF s.exc # "none" THEN s
        ELSE
            LET del == DeleteBackend(s.ctl, s.world, outs, Len(s.log))
                w1  == ApplyLog(s.world, c.vm_name, del)
                exc == LastExc(del)
            IN  IF exc # "none"
                THEN Outcome(s.ctl, w1, s.log \o del, "raise", exc)
                ELSE
                    LET rm == RmDir(w1, c.vm_name)
                    IN  Outcome(s.ctl, ApplyLog(w1, c.vm_name, rm),
                                s.log \o del \o rm, "true", "none")

----------------------------------------------------------------------------
(* WindowsVMManager._scan_vms *)

ScanVMs(w) == IF w.root THEN {n \in Names : w.dirs[n]} ELSE {}

----------------------------------------------------------------------------
(* The state machine *)

Live == ctl.virtualization_tool # "none"

\* no window: the list of VMs is empty and no worker is in flight
NoGui == [state |-> "closed", vms |-> {}, workers |-> << >>]

\* What the caller of the last operation saw, with the controller's fields as
\* they were when it was called.  after_delete: the operation before this one
\* (constructions apart) was a delete that returned True.
AfterDelete ==
    \/ last.op = "delete" /\ last.result = "true"
    \/ last.op = "init" /\ last.after_delete

Report(op, c, r, after, args) ==
    [op |-> op, vm_name |-> c.vm_name, tool |-> c.virtualization_tool,
     iso |-> c.iso_path, pre_running |-> c.vm_running,
     log |-> r.log, result |-> r.result, exc |-> r.exc,
     after_delete |-> after, args |-> args]

Init ==
    /\ host \in [system : Systems, probe : Outcomes, kvm : BOOLEAN]
    /\ ctl = NoCtl
    /\ world = [root    |-> FALSE,
                dirs    |-> [n \in Names |-> FALSE],
                disks   |-> [n \in Names |-> FALSE],
                applied |-> [n \in Names |-> {}],
                power   |-> [n \in Names |-> 0],
                dsize   |-> [n \in Names |-> 0],
                extra   |-> [n \in Names |-> FALSE]]
    /\ last = Report("none", NoCtl,
                     Outcome(NoCtl, world, << >>, "none", "none"), FALSE,
                     NoArgs)
    /\ gui = NoGui

\* WindowsVMManager.__init__: os.makedirs(vm_base_dir, exist_ok=True)
GuiOpen ==
    /\ ~world.root
    /\ world' = [world EXCEPT !.root = TRUE]
    /\ UNCHANGED <<host, ctl, last, gui>>

Construct ==
    \E name \in Names, iso \in IsoPaths :
        LET tool == DetectTool(host.system, host.probe, host.kvm)
        IN  /\ ctl' = IF tool = "raise" THEN NoCtl ELSE NewVM(name, iso, tool)
            /\ last' = Report("init", ctl',
                              Outcome(ctl', world, << >>,
                                      IF tool = "raise" THEN "raise" ELSE "none",
                                      IF tool = "raise" THEN "FileNotFoundError"
                                      ELSE "none"),
                              AfterDelete, NoArgs)
            /\ UNCHANGED <<host, world, gui>>

Apply(op, r, args) ==
    /\ ctl' = r.ctl
    /\ world' = r.world
    /\ last' = Report(op, ctl, r, AfterDelete, args)
    /\ UNCHANGED <<host, gui>>

Create ==
    /\ Live
    /\ \E outs \in OutcomeSeqs(MaxCmds) : Apply("create", CreateVM(ctl, world, outs), NoArgs)

Start ==
    /\ Live
    /\ \E outs \in OutcomeSeqs(1), alive \in BOOLEAN :
           Apply("start", StartVM(ctl, world, outs, alive),
                 QemuArgs(ctl, world))

Stop ==
    /\ Live
    /\ \E outs \in OutcomeSeqs(1) : Apply("stop", StopVM(ctl, world, outs), NoArgs)

Delete ==
    /\ Live
    /\ \E outs \in OutcomeSeqs(2) : Apply("delete", DeleteVM(ctl, world, outs), NoArgs)

\* the guest of a running VM writes to its disk image, which grows
GuestWrites ==
    \E n \in Names, size \in DiskSizes :
        /\ world.power[n] > 0
        /\ world.disks[n]
        /\ size > world.dsize[n]
        /\ world' = [world EXCEPT !.dsize[n] = size]
        /\ UNCHANGED <<host, ctl, last, gui>>

\* something other than the controller leaves a file in a VM's directory
OtherFile ==
    \E n \in Names :
        /\ world.dirs[n]
        /\ ~world.extra[n]
        /\ world' = [world EXCEPT !.extra[n] = TRUE]
        /\ UNCHANGED <<host, ctl, last, gui>>

Next ==
    \/ GuiOpen \/ Construct \/ Create \/ Start \/ Stop \/ Delete
    \/ GuestWrites \/ OtherFile

Spec == Init /\ [][Next]_vars

----------------------------------------------------------------------------
(* vm_cli.main *)

Commands == {"create", "start", "stop", "delete"}

\* the name under which an invocation of the command line is reported
CliOp(cmd) ==
    CASE cmd = "create" -> "cli-create"
      [] cmd = "start"  -> "cli-start"
      [] cmd = "stop"   -> "cli-stop"
      [] cmd = "delete" -> "cli-delete"

\* the operation named cmd called on controller c
Dispatch(cmd, c, w, outs, alive) ==
    CASE cmd = "create" -> CreateVM(c, w, outs)
      [] cmd = "start"  -> StartVM(c, w, outs, alive)
      [] cmd = "stop"   -> StopVM(c, w, outs)
      [] cmd = "delete" -> DeleteVM(c, w, outs)

\* what the operation named cmd meets: the outcomes of the commands it can
\* issue and, for start, whether the process is alive at the poll
OpInputs(cmd) ==
    CASE cmd = "create" -> [outs : OutcomeSeqs(MaxCmds), alive : {TRUE}]
      [] cmd = "start"  -> [outs : OutcomeSeqs(1), alive : BOOLEAN]
      [] cmd = "stop"   -> [outs : OutcomeSeqs(1), alive : {TRUE}]
      [] cmd = "delete" -> [outs : OutcomeSeqs(2), alive : {TRUE}]

\* --iso is an argument of create and start only
CliIsos(cmd) == IF cmd \in {"create", "start"} THEN IsoPaths ELSE {"none"}

\* a command line that, like the window's stop button, takes the VM to be
\* running when it is asked to stop it
CliVMAssumesRunning(cmd, name, iso, tool) ==
    [NewVM(name, IF cmd \in {"create", "start"} THEN iso ELSE "none", tool)
        EXCEPT !.vm_running = (cmd = "stop")]

\* the controller main() constructs: only create and start have --iso
CliVM(cmd, name, iso, tool) ==
    NewVM(name, IF cmd \in {"create", "start"} THEN iso ELSE "none", tool)

\* One invocation with a command: the controller is constructed, the one
\* operation is called, and whatever it raises leaves main().  The
\* controller ends with the process, so no invocation follows a delete of
\* its own controller.
CliMain ==
    \E cmd \in Commands, name \in Names :
      \E iso \in CliIsos(cmd), inp \in OpInputs(cmd) :
        LET tool == DetectTool(host.system, host.probe, host.kvm)
            vm   == IF tool = "raise" THEN NoCtl
                    ELSE CliVM(cmd, name, iso, tool)
            r    == IF tool = "raise"
                    THEN Outcome(NoCtl, world, << >>, "raise",
                                 "FileNotFoundError")
                    ELSE Dispatch(cmd, vm, world, inp.outs, inp.alive)
            args == IF tool # "raise" /\ cmd = "start"
                    THEN QemuArgs(vm, world) ELSE NoArgs
        IN  /\ world' = r.world
            /\ last' = Report(CliOp(cmd), vm, r, FALSE, args)
            /\ UNCHANGED <<host, ctl, gui>>

CliNext == CliMain \/ GuestWrites \/ OtherFile

CliSpec == Init /\ [][CliNext]_vars

----------------------------------------------------------------------------
(* WindowsVMManager and VMWorker *)

\* main(): the window is constructed, which creates the storage root and
\* scans it.  A window that follows an aborted one finds none of the
\* earlier process's workers.
GuiMain ==
    /\ gui.state # "open"
    /\ world' = [world EXCEPT !.root = TRUE]
    /\ gui' = [state |-> "open", vms |-> ScanVMs(world'), workers |-> << >>]
    /\ UNCHANGED <<host, ctl, last>>

Worker(op, vm) == [op |-> op, vm |-> vm, ref |-> TRUE]

\* self.worker names another object: the earlier worker loses its reference
Unref(ws) == [i \in DOMAIN ws |-> [ws[i] EXCEPT !.ref = FALSE]]

\* The end of a click handler: `self.worker = VMWorker(op, vm)`, the signal
\* connections, `self.worker.start()`.  When the worker self.worker named
\* before is still running, the assignment takes the last reference to a
\* running QThread: either the thread object outlives it and goes on
\* running, or it is destroyed while running and the process aborts.  A
\* controller whose construction raises leaves the handler before any
\* worker exists; the exception leaves the slot, which the toolkit either
\* reports and survives or answers by aborting.
StartWorker(op, name, iso, running) ==
    LET tool == DetectTool(host.system, host.probe, host.kvm)
        vm   == [NewVM(name, iso, tool) EXCEPT !.vm_running = running]
        held == \E i \in DOMAIN gui.workers : gui.workers[i].ref
    IN  /\ gui.state = "open"
        /\ Len(gui.workers) < MaxWorkers
        /\ \E abort \in BOOLEAN :
               gui' = IF abort /\ (tool = "raise" \/ held)
                      THEN [gui EXCEPT !.state = "aborted",
                                       !.workers = << >>]
                      ELSE IF tool = "raise" THEN gui
                      ELSE [gui EXCEPT !.workers =
                               Append(Unref(@), Worker(op, vm))]
        /\ UNCHANGED <<host, ctl, world, last>>

\* create_vm with a name and an ISO path that pass its checks
CreateClick == \E name \in Names : StartWorker("create", name, "iso_ok", FALSE)

\* start_vm on the selected item of the list
StartClick == \E name \in gui.vms : StartWorker("start", name, "none", FALSE)

\* start_with_iso on the selected item, with an ISO path that passes
StartIsoClick ==
    \E name \in gui.vms : StartWorker("start", name, "iso_ok", FALSE)

\* stop_vm on the selected item: `vm.vm_running = True  # Assume it's running`
StopClick == \E name \in gui.vms : StartWorker("stop", name, "none", TRUE)

\* delete_vm on the selected item, confirmed
DeleteClick == \E name \in gui.vms : StartWorker("delete", name, "none", FALSE)

RemoveAt(ws, i) ==
    [k \in 1..(Len(ws) - 1) |-> IF k < i THEN ws[k] ELSE ws[k + 1]]

\* VMWorker.run to its end and on_operation_finished: the operation is
\* called, every exception becomes the result False, and a result True
\* refreshes the list of VMs.
WorkerRun ==
    \E i \in DOMAIN gui.workers :
      \E inp \in OpInputs(gui.workers[i].op) :
        LET wk == gui.workers[i]
            r  == Dispatch(wk.op, wk.vm, world, inp.outs, inp.alive)
        IN  /\ gui.state = "open"
            /\ world' = r.world
            /\ gui' = [gui EXCEPT
                          !.workers = RemoveAt(@, i),
                          !.vms = IF r.result = "true"
                                  THEN ScanVMs(r.world) ELSE @]
            /\ UNCHANGED <<host, ctl, last>>

GuiNext ==
    \/ GuiMain \/ CreateClick \/ StartClick \/ StartIsoClick \/ StopClick
    \/ DeleteClick \/ WorkerRun \/ GuestWrites \/ OtherFile

GuiSpec == Init /\ [][GuiNext]_vars

----------------------------------------------------------------------------
(* Properties *)

Ops == {"create", "start", "stop", "delete"}

FsSteps == {"makedirs", "os.remove", "os.rmdir"}

IsBackendCmd(e) == e.cmd \notin FsSteps

\* the external commands of the last operation, in the order issued
BackendLog == SelectSeq(last.log, IsBackendCmd)

CmdFailed(e) == IsBackendCmd(e) /\ e.out # "ok"

SomeCmdFailed == \E i \in DOMAIN last.log : CmdFailed(last.log[i])

C2_StopWhenStopped ==
    (last.op = "stop" /\ ~last.pre_running) =>
        /\ last.result = "false"
        /\ last.log = << >>
        /\ ~ctl.vm_running

C2_Witness ==
    /\ last.op = "stop" /\ ~last.pre_running /\ last.result = "false"
    /\ world.power[last.vm_name] > 0

\* C3: a start() from Stopped whose launch succeeds returns True and leaves
\* the run-state Running; a stop() from Running whose command succeeds
\* returns True and leaves the run-state Stopped.
C3_StartStopTransitions ==
    /\ (/\ last.op = "start" /\ ~last.pre_running
        /\ last.log = << Entry(StartCmd(last.tool), "ok") >>)
           => (last.result = "true" /\ ctl.vm_running)
    /\ (/\ last.op = "stop" /\ last.pre_running
        /\ last.log = << Entry(StopCmd(last.tool), "ok") >>)
           => (last.result = "true" /\ ~ctl.vm_running)

C3_Witness ==
    /\ last.op = "stop" /\ last.pre_running /\ last.tool = "virtualbox"
    /\ last.result = "true" /\ ~ctl.vm_running
    /\ world.power[last.vm_name] = 0

\* C4: in a delete() called while Running the stop command is the first thing
\* issued: every backend delete step (remove-VM command, unregister command,
\* removal of the disk file) and the removal of the directory come after it.
C4_StopBeforeDelete ==
    (last.op = "delete" /\ last.pre_running) =>
        /\ last.log # << >>
        /\ last.log[1].cmd = StopCmd(last.tool)
        /\ \A i \in DOMAIN last.log :
               last.log[i].cmd \in UndoSteps => i > 1

C4_Witness ==
    /\ last.op = "delete" /\ last.pre_running /\ last.result = "true"
    /\ \E i \in DOMAIN last.log : last.log[i].cmd \in DeleteSteps

C6_CreateWithoutIso ==
    (last.op = "create" /\ last.iso = "none") =>
        /\ last.result = "raise"
        /\ last.exc = "ValueError"
        /\ last.log = << >>

C6_Witness ==
    /\ last.op = "create" /\ last.iso = "none" /\ last.exc = "ValueError"
    /\ ~world.dirs[last.vm_name]
    /\ last.tool = "hyperv"

\* C7 as stated: create() with an ISO path that names no existing file fails
\* with the invalid-configuration error before any backend command is issued.
C7_CreateWithMissingIsoFile ==
    (last.op = "create" /\ last.iso = "iso_missing") =>
        /\ last.result = "raise"
        /\ last.exc = "ValueError"
        /\ BackendLog = << >>

\* C8: a create on the Type1 or Desktop backend issues its commands in the
\* one order of the backend's sequence, and a command is issued only after
\* all commands before it succeeded: nothing follows a failing command.
C8_CreateInOrderAndGated ==
    (last.op = "create" /\ last.tool \in {"hyperv", "virtualbox"}) =>
        LET seq == IF last.tool = "hyperv"
                   THEN << "New-VM", "New-VHD", "Add-VMHardDiskDrive",
                           "Add-VMDvdDrive", "Set-VMFirmware-SecureBootOff",
                           "Set-VMFirmware-FirstBootDevice" >>
                   ELSE << "createvm", "modifyvm", "createmedium",
                           "storagectl-sata", "storageattach-hdd",
                           "storagectl-ide", "storageattach-dvd" >>
        IN  /\ Len(BackendLog) <= Len(seq)
            /\ \A k \in DOMAIN BackendLog :
                   /\ BackendLog[k].cmd = seq[k]
                   /\ \A j \in 1..(k - 1) : BackendLog[j].out = "ok"

C8_Witness ==
    /\ last.op = "create" /\ last.tool = "virtualbox"
    /\ Len(BackendLog) = 4 /\ BackendLog[4].out = "nonzero"
    /\ last.result = "raise"

\* C9: when a step of a Type1 or Desktop create fails, create() issues no
\* remove, unregister or file-removal step, and what the earlier steps did
\* is still there when it ends: the storage directory, the VM's record with
\* every step that succeeded, and the disk once its step succeeded.
C9_NoRollback ==
    (/\ last.op = "create" /\ last.tool \in {"hyperv", "virtualbox"}
     /\ SomeCmdFailed) =>
        /\ \A i \in DOMAIN last.log : last.log[i].cmd \notin UndoSteps
        /\ world.dirs[last.vm_name]
        /\ \A k \in DOMAIN BackendLog :
               BackendLog[k].out = "ok" =>
                   /\ BackendLog[k].cmd \in world.applied[last.vm_name]
                   /\ BackendLog[k].cmd \in DiskCmds =>
                          world.disks[last.vm_name]

C9_Witness ==
    /\ last.op = "create" /\ last.tool = "hyperv" /\ last.result = "raise"
    /\ Len(BackendLog) = 3 /\ BackendLog[3].out = "nonzero"
    /\ world.applied[last.vm_name] = {"New-VM", "New-VHD"}
    /\ world.disks[last.vm_name]

\* C10: right after a create() that got past its ISO check (so after every
\* create() that returned True, on each of the three backends) a scan of the
\* storage root lists the VM's name.
C10_CreatedVmIsScanned ==
    (last.op = "create" /\ last.exc # "ValueError") =>
        last.vm_name \in ScanVMs(world)

C10_Witness ==
    /\ last.op = "create" /\ last.result = "true" /\ last.tool = "qemu"
    /\ ScanVMs(world) = {last.vm_name}

\* C11: create() never changes the run-state, whether it returns True, fails
\* its ISO check or fails in a backend step.
C11_CreateKeepsRunState ==
    last.op = "create" => ctl.vm_running = last.pre_running

C11_Witness ==
    /\ last.op = "create" /\ last.result = "true"
    /\ ~last.pre_running /\ ~ctl.vm_running
    /\ world.disks[last.vm_name]

\* C12 as stated: constructing a controller always ends with one of the
\* three backend kinds and never with an error, whatever way the probe fails
\* on the Type-1-capable platform.
C12_DetectionNeverFails ==
    last.op = "init" =>
        /\ last.result # "raise"
        /\ ctl.virtualization_tool \in {"qemu", "hyperv", "virtualbox"}

\* C13 as stated: the decision table of detect() over every platform, probe
\* outcome and presence of the device node.
C13_DecisionTable ==
    last.op = "init" =>
        ctl.virtualization_tool =
            IF host.system = "windows"
            THEN (IF host.probe = "ok" THEN "hyperv" ELSE "virtualbox")
            ELSE IF host.system = "darwin" THEN "virtualbox"
            ELSE IF host.kvm THEN "qemu" ELSE "virtualbox"

\* C14: every controller that has just been constructed has run-state
\* Stopped, whatever the power state of the VM; and the stop() of a
\* controller that has just been constructed returns False and changes
\* nothing on the host, so a VM that is running stays running.
C14_FreshControllerIsStopped ==
    [][/\ (last'.op = "init" /\ last'.result # "raise") => ~ctl'.vm_running
       /\ (last.op = "init" /\ last'.op = "stop") =>
              /\ last'.result = "false"
              /\ last'.log = << >>
              /\ world' = world
              /\ ~ctl'.vm_running]_vars

C14_Witness ==
    /\ last.op = "stop" /\ last.tool = "hyperv"
    /\ ~last.pre_running /\ last.result = "false" /\ last.log = << >>
    /\ world.power[last.vm_name] = 1
    /\ ~ctl.vm_running

\* C15: on the KVM backend a start() whose process has exited at the poll
\* returns False and leaves the run-state as it was (Stopped stays Stopped);
\* a start() whose process is alive at the poll returns True and leaves the
\* run-state Running.
C15_KvmStartPoll ==
    (last.op = "start" /\ last.tool = "qemu") =>
        /\ last.log = << Entry("qemu-system-x86_64", "exited") >> =>
               /\ last.result = "false"
               /\ ctl.vm_running = last.pre_running
        /\ last.log = << Entry("qemu-system-x86_64", "ok") >> =>
               /\ last.result = "true"
               /\ ctl.vm_running

C15_Witness ==
    /\ last.op = "start" /\ last.tool = "qemu" /\ ~last.pre_running
    /\ last.log = << Entry("qemu-system-x86_64", "exited") >>
    /\ last.result = "false" /\ ~ctl.vm_running

\* C17 as stated: a create() on the Desktop backend that returns True has
\* issued exactly six external commands.
C17_SixDesktopCommands ==
    (last.op = "create" /\ last.tool = "virtualbox" /\ last.result = "true")
        => Len(BackendLog) = 6

\* C17 amended: a create() on the Desktop backend that returns True has
\* issued exactly seven external commands: register the VM, set memory and
\* CPUs, create the disk medium, add the disk controller, attach the disk,
\* add the removable-media controller, attach the ISO.
C17_SevenDesktopCommands ==
    (last.op = "create" /\ last.tool = "virtualbox" /\ last.result = "true")
        => /\ Len(BackendLog) = 7
           /\ [k \in 1..7 |-> BackendLog[k].cmd] =
                  << "createvm", "modifyvm", "createmedium",
                     "storagectl-sata", "storageattach-hdd",
                     "storagectl-ide", "storageattach-dvd" >>

C17_Witness ==
    /\ last.op = "create" /\ last.tool = "virtualbox" /\ last.result = "true"
    /\ Len(BackendLog) = 7
    /\ Cardinality(world.applied[last.vm_name]) = 7

\* C18: on the KVM backend a stop() from Running whose pkill ran returns
\* True, raises nothing and leaves the run-state Stopped, whether pkill
\* matched a process (exit 0) or failed to (non-zero exit).
C18_KvmStopBestEffort ==
    (/\ last.op = "stop" /\ last.tool = "qemu" /\ last.pre_running
     /\ last.log # << >> /\ last.log[1].out \in {"ok", "nonzero"}) =>
        /\ last.result = "true"
        /\ last.exc = "none"
        /\ ~ctl.vm_running

C18_Witness ==
    /\ last.op = "stop" /\ last.tool = "qemu" /\ last.pre_running
    /\ last.log = << Entry("pkill", "nonzero") >>
    /\ last.result = "true" /\ ~ctl.vm_running
    /\ world.power[last.vm_name] > 0

\* C20: the run-state changes only on success: a start() that does not
\* return True leaves the run-state as it was, and a stop() from Running
\* whose command fails on the Type1 or Desktop backend leaves it Running.
C20_RunStateOnlyOnSuccess ==
    /\ (last.op = "start" /\ last.result # "true")
           => ctl.vm_running = last.pre_running
    /\ (/\ last.op = "stop" /\ last.pre_running
        /\ last.tool \in {"hyperv", "virtualbox"} /\ SomeCmdFailed)
           => (ctl.vm_running /\ last.result = "raise")

C20_Witness ==
    /\ last.op = "stop" /\ last.pre_running /\ last.tool = "virtualbox"
    /\ last.log = << Entry("controlvm-acpipowerbutton", "nonzero") >>
    /\ ctl.vm_running

\* C16: on the KVM backend start() puts `-boot d` on the command line
\* exactly when an ISO is given and the disk image it finds exists with a
\* size strictly below the threshold: an image of exactly the threshold size
\* or larger, or a start without ISO, never gets it.
C16_ForcedCdBoot ==
    (last.op = "start" /\ last.tool = "qemu") =>
        /\ (last.args.media = "cdrom-boot-d") <=>
               /\ last.iso # "none"
               /\ last.args.disk
               /\ last.args.size < Threshold
        /\ last.iso = "none" => last.args.media = "disk"
        /\ (last.iso # "none" /\ last.args.size >= Threshold)
               => last.args.media = "cdrom"

C16_Witness ==
    /\ last.op = "start" /\ last.tool = "qemu" /\ last.iso = "iso_ok"
    /\ last.args.disk
    /\ last.args.size = Threshold
    /\ last.args.media = "cdrom"

\* C19: a delete() that got past its backend delete step returns True
\* whether the removal of the directory succeeds or fails; the directory is
\* removed only when it holds nothing, so a directory with something left in
\* it stays in place with its contents.
C19_DirCleanupNeverEscalates ==
    (/\ last.op = "delete" /\ last.log # << >>
     /\ last.log[Len(last.log)].cmd = "os.rmdir") =>
        /\ last.result = "true"
        /\ last.exc = "none"
        /\ last.log[Len(last.log)].out = "ok" =>
               /\ ~world.dirs[last.vm_name]
               /\ DirEmpty(world, last.vm_name)
        /\ last.log[Len(last.log)].out = "oserror" =>
               (world.dirs[last.vm_name] => ~DirEmpty(world, last.vm_name))

C19_Witness ==
    /\ last.op = "delete" /\ last.result = "true" /\ last.tool = "qemu"
    /\ last.log = << Entry("os.remove", "ok"), Entry("os.rmdir", "oserror") >>
    /\ world.dirs[last.vm_name] /\ world.extra[last.vm_name]

\* C21: a delete() called while Running on the Type1 or Desktop backend
\* whose stop command fails ends there, with the error of that command: the
\* stop command is all it issued, the VM's registration, the disk file, the
\* storage directory and the power state are as they were before the call,
\* and the run-state is still Running.
C21_FailedStopEndsDelete ==
    [][(/\ last'.op = "delete" /\ last'.pre_running
        /\ last'.tool \in {"hyperv", "virtualbox"}
        /\ last'.log # << >> /\ last'.log[1].out # "ok") =>
           /\ last'.log = << Entry(StopCmd(last'.tool), last'.log[1].out) >>
           /\ last'.result = "raise"
           /\ last'.exc = ExcOf(last'.log[1].out)
           /\ world'.applied = world.applied
           /\ world'.disks = world.disks
           /\ world'.dirs = world.dirs
           /\ world'.power = world.power
           /\ ctl'.vm_running]_vars

C21_Witness ==
    /\ last.op = "delete" /\ last.pre_running /\ last.tool = "virtualbox"
    /\ last.log = << Entry("controlvm-acpipowerbutton", "nonzero") >>
    /\ last.result = "raise"
    /\ ctl.vm_running
    /\ Cardinality(world.applied[last.vm_name]) = 7
    /\ world.disks[last.vm_name] /\ world.dirs[last.vm_name]
    /\ world.power[last.vm_name] = 1

\* C23: start() does not look at the run-state.  Called while Running it
\* issues the backend's start command as it does from Stopped; on the KVM
\* backend a start whose process is alive at the poll has put one more VM
\* process on the same disk image; and a start that returns True leaves the
\* run-state Running.  (A step of start() changes nothing on the host but
\* the power state, which no step of the guest or of other files does;
\* MaxProcs caps the processes counted.)
C23_StartNotGated ==
    [][(/\ last'.op = "start" /\ last'.pre_running
        /\ [world' EXCEPT !.power = world.power] = world) =>
           LET n == last'.vm_name
           IN  /\ Len(last'.log) = 1
               /\ last'.log[1].cmd = StartCmd(last'.tool)
               /\ last'.result = "true" => ctl'.vm_running
               /\ (last'.tool = "qemu" /\ last'.result = "true") =>
                      /\ world'.power[n] = Min(world.power[n] + 1, MaxProcs)
                      /\ world'.disks = world.disks]_vars

C23_Witness ==
    /\ last.op = "start" /\ last.pre_running /\ last.tool = "qemu"
    /\ last.log = << Entry("qemu-system-x86_64", "ok") >>
    /\ last.result = "true" /\ ctl.vm_running
    /\ world.power[last.vm_name] = 2
    /\ world.disks[last.vm_name]

\* C22 as stated: the window serializes operations per VM name: at any time
\* at most one worker operation on a given name is in flight.
C22_OneWorkerPerName ==
    \A n \in Names :
        Cardinality({i \in DOMAIN gui.workers :
                        gui.workers[i].vm.vm_name = n}) <= 1

\* C24: an invocation of the command line's stop command issues no backend
\* stop command (nor any other step) and leaves the power state of every VM
\* as it was: the controller it constructs is Stopped, so its stop()
\* returns False at once; where the construction itself raises, stop() is
\* not called at all.
C24_CliStopDoesNothing ==
    [][last'.op = "cli-stop" =>
           /\ last'.log = << >>
           /\ world'.power = world.power
           /\ ~last'.pre_running
           /\ last'.result = IF last'.tool = "none" THEN "raise" ELSE "false"
      ]_vars

C24_Witness ==
    /\ last.op = "cli-stop" /\ last.tool = "qemu"
    /\ last.result = "false" /\ last.log = << >>
    /\ world.power[last.vm_name] = 2

====
